---- MODULE Spec2Model ----
(***************************************************************************)
(* Model of the Radarr adapter, server/api/radarr.ts (class RadarrAPI).    *)
(*                                                                         *)
(* Every public method is an async function: it runs synchronously up to   *)
(* an await of a network request, is suspended, and is resumed by the      *)
(* response (or the rejection) of that request.  A call is a slot of       *)
(* Calls; pc[c] is the await the call is suspended at.  One action starts  *)
(* a call (everything up to its first await) and one action per await      *)
(* resumes it (everything up to the next await or to the return/throw).    *)
(* The service behind the transport is not part of the repository: its     *)
(* responses are inputs, drawn from bounded sets.                          *)
(***************************************************************************)
EXTENDS Naturals, Sequences, FiniteSets

VARIABLES
    op,       \* op[c]: the method call slot c is running
    pc,       \* pc[c]: "idle", the await the call is suspended at, or "done"
    options,  \* options[c]: the argument of addMovie
    movie,    \* movie[c]: addMovie's local `movie` (radarr.ts:142)
    sent,     \* sent[c]: the requests the call has issued, in order
    recv,     \* recv[c]: the responses the call has received, in order
    cause,    \* cause[c]: e.message of the error addMovie's catch logged
    result,   \* result[c]: what the promise settled with
    cache,    \* the node-cache instance shared by the adapter's calls
    now,      \* the clock the cache reads, in seconds
    service   \* service[t]: the record the service holds for tmdb id t

vars ==
    <<op, pc, options, movie, sent, recv, cause, result, cache, now, service>>

(***************************************************************************)
(* Bounds of the model.                                                    *)
(***************************************************************************)
MaxId == 2        \* internal ids are 0..MaxId; 0 is "no id" (falsy)
MaxLen == 2       \* longest array in a response (lookup candidates, queue)
MaxTime == 7200   \* the clock stops advancing here

Calls == {1, 2}
\* addMovie and getMovieByTmdbId read and write no field of the adapter and
\* no cache entry, so their calls cannot affect one another: one slot.
WriteCalls == {1}

TmdbIds == {11, 603}
Titles == {"The Matrix"}
TransportErrors ==
    {"connect ECONNREFUSED", "Request failed with status code 400"}

(***************************************************************************)
(* Values.                                                                 *)
(***************************************************************************)
\* RadarrMovie (radarr.ts:18-33): the fields the adapter's control flow reads.
Movies == [id : 0..MaxId, monitored : BOOLEAN, downloaded : BOOLEAN]

\* RadarrMovieOptions (radarr.ts:6-16).  title stands for the fields that
\* are copied into the request body and read nowhere else.
Options == [tmdbId : TmdbIds, title : Titles, monitored : BOOLEAN]

NoMovie == [none |-> TRUE]
NoOptions == [none |-> TRUE]
NoBody == [none |-> TRUE]
NoCause == ""

NoResult == [kind |-> "none"]
Resolved(v) == [kind |-> "ok", value |-> v]
\* new Error(message): a fresh object that carries the message and nothing
\* of the error it replaces.
Rejected(m) == [kind |-> "error", message |-> m]

\* What the transport settles an awaited request with: a 2xx response with
\* its data, or a rejection (no connection, timeout, non-2xx status).
HttpOk(d) == [ok |-> TRUE, data |-> d]
HttpFail(m) == [ok |-> FALSE, message |-> m]

SeqsUpTo(S, n) == UNION {[1..k -> S] : k \in 0..n}

LookupResponses ==
    {HttpOk(d) : d \in SeqsUpTo(Movies, MaxLen)}
        \cup {HttpFail(m) : m \in TransportErrors}
MovieResponses ==
    {HttpOk(m) : m \in Movies} \cup {HttpFail(m) : m \in TransportErrors}

\* RadarrProfile (radarr.ts:46-49) and RadarrRootFolder (radarr.ts:35-44).
Profiles == {[id |-> 1, name |-> "HD-1080p"], [id |-> 2, name |-> "Ultra-HD"]}
RootFolders == {[id |-> 1, path |-> "/movies"], [id |-> 2, path |-> "/films"]}
\* QueueItem (radarr.ts:51-66).
QueueItems == {[id |-> 1, movieId |-> 1], [id |-> 2, movieId |-> 1]}

\* What GET /qualityProfile and GET /rootfolder answer: the configuration
\* of the service, which changes between one request and the next.
ProfileLists == {<<p>> : p \in Profiles}
RootFolderLists == {<<f>> : f \in RootFolders}

\* QueueResponse (radarr.ts:68-75), and a 2xx body that is no envelope.
QueueEnvelopes ==
    [page : 1..2, pageSize : {10}, sortKey : {"timeleft"},
     sortDirection : {"ascending"}, totalRecords : {MaxLen},
     records : SeqsUpTo(QueueItems, MaxLen)]
QueueBodies == QueueEnvelopes \cup {[message |-> "Unauthorized"]}
WellFormed(d) == "records" \in DOMAIN d

Undefined == "undefined"
\* d.records: the property, or undefined when the object has none.
RecordsOf(d) == IF "records" \in DOMAIN d THEN d.records ELSE Undefined

ProfileResponses ==
    {HttpOk(d) : d \in ProfileLists} \cup {HttpFail(m) : m \in TransportErrors}
RootFolderResponses ==
    {HttpOk(d) : d \in RootFolderLists}
        \cup {HttpFail(m) : m \in TransportErrors}
QueueResponses ==
    {HttpOk(d) : d \in QueueBodies} \cup {HttpFail(m) : m \in TransportErrors}

\* Number.prototype.toString: the decimal digits, most significant first.
RECURSIVE ToString(_)
ToString(n) ==
    IF n < 10 THEN <<n>> ELSE Append(ToString(n \div 10), n % 10)

(***************************************************************************)
(* The requests.                                                           *)
(***************************************************************************)
GetRequest(path) == [method |-> "GET", path |-> path, body |-> NoBody]

LookupRequest(id) ==
    [method |-> "GET", path |-> "/movie/lookup",
     body |-> [term |-> <<"tmdb:", id>>]]

PutRequest(m, o) ==
    [method |-> "PUT", path |-> "/movie",
     body |-> [id |-> m.id, downloaded |-> m.downloaded,
               title |-> o.title, titleSlug |-> ToString(o.tmdbId),
               tmdbId |-> o.tmdbId, monitored |-> o.monitored]]

\* Faulty variant: the create leaves out the caller's monitored flag.
PostRequestUnmonitored(o) ==
    [method |-> "POST", path |-> "/movie",
     body |-> [title |-> o.title, titleSlug |-> ToString(o.tmdbId),
               tmdbId |-> o.tmdbId, monitored |-> FALSE]]

PostRequest(o) ==
    [method |-> "POST", path |-> "/movie",
     body |-> [title |-> o.title, titleSlug |-> ToString(o.tmdbId),
               tmdbId |-> o.tmdbId, monitored |-> o.monitored]]

IsWrite(q) == q.method \in {"PUT", "POST"}
Writes(c) == SelectSeq(sent[c], IsWrite)
Puts(c) == SelectSeq(sent[c], LAMBDA q : q.method = "PUT")
Posts(c) == SelectSeq(sent[c], LAMBDA q : q.method = "POST")

(***************************************************************************)
(* getMovieByTmdbId, after its await (radarr.ts:124-135).                   *)
(***************************************************************************)
\* Faulty variant: lets the transport's own error through.
GetMovieByTmdbIdRethrow(r) ==
    IF ~r.ok THEN Rejected(r.message)
    ELSE IF Len(r.data) = 0 THEN Rejected("Movie not found")
    ELSE Resolved(r.data[1])

GetMovieByTmdbIdSettle(r) ==
    IF ~r.ok
    THEN Rejected("Movie not found")          \* catch, line 134
    ELSE IF Len(r.data) = 0                   \* !response.data[0]
    THEN Rejected("Movie not found")          \* line 125, caught, line 134
    ELSE Resolved(r.data[1])                  \* line 128

(***************************************************************************)
(* addMovie (radarr.ts:138-240).                                           *)
(***************************************************************************)
\* Faulty variant: rethrows what it caught.
AddMovieCatchRethrow(m) == Rejected(m)

\* Faulty variant: lets the error of the update check (line 187) escape.
AddMovieCatchKeepsUpdateError(m) ==
    IF m = "Failed to update existing movie in Radarr"
    THEN Rejected(m)
    ELSE Rejected("Failed to add movie to Radarr")

\* catch (e): log e.message, throw the generic error (lines 228-239).
AddMovieCatch(m) == Rejected("Failed to add movie to Radarr")

\* Faulty variant: tests "exists and unmonitored" before "downloaded".
AddMovieBranchUpdateFirst(m) ==
    IF m.id # 0 /\ ~m.monitored THEN "update"
    ELSE IF m.downloaded THEN "existing"
    ELSE IF m.id # 0 THEN "existing"
    ELSE "create"

\* Faulty variant: drops the "already monitored" return.
AddMovieBranchNoMonitored(m) ==
    IF m.downloaded THEN "existing"
    ELSE IF m.id # 0 /\ ~m.monitored THEN "update"
    ELSE "create"

\* The branch taken on the looked-up movie (lines 144, 155, 191, 199).
AddMovieBranch(m) ==
    IF m.downloaded THEN "existing"
    ELSE IF m.id # 0 /\ ~m.monitored THEN "update"
    ELSE IF m.id # 0 THEN "existing"
    ELSE "create"

\* Faulty variant: trusts the HTTP status of the update.
VerifyUpdateStatusOnly(m, d) == [thrown |-> FALSE, value |-> d]

\* Faulty variant: returns the looked-up movie after the update.
VerifyUpdateReturnsMovie(m, d) ==
    IF d.monitored
    THEN [thrown |-> FALSE, value |-> m]
    ELSE [thrown |-> TRUE,
          message |-> "Failed to update existing movie in Radarr"]

\* After the PUT resolved with data d (lines 172-188).
VerifyUpdate(m, d) ==
    IF d.monitored
    THEN [thrown |-> FALSE, value |-> d]
    ELSE [thrown |-> TRUE,
          message |-> "Failed to update existing movie in Radarr"]

\* Faulty variant: accepts a created record without id.
VerifyCreateStatusOnly(d) == [thrown |-> FALSE, value |-> d]

\* After the POST resolved with data d (lines 214-227).
VerifyCreate(d) ==
    IF d.id # 0
    THEN [thrown |-> FALSE, value |-> d]
    ELSE [thrown |-> TRUE, message |-> "Failed to add movie to Radarr"]

\* The call settles: a return inside the try, or a throw that the catch
\* turns into the generic error.
Return(c, v) ==
    /\ result' = [result EXCEPT ![c] = Resolved(v)]
    /\ pc' = [pc EXCEPT ![c] = "done"]
    /\ UNCHANGED cause

Throw(c, m) ==
    /\ cause' = [cause EXCEPT ![c] = m]
    /\ result' = [result EXCEPT ![c] = AddMovieCatch(m)]
    /\ pc' = [pc EXCEPT ![c] = "done"]

(***************************************************************************)
(* The rolling fetch of the base class ExternalAPI, and the cache under it. *)
(***************************************************************************)
CacheKeys == {"/qualityProfile", "/rootfolder", "/queue"}
NoEntry == [none |-> TRUE]
TickSteps == {1800, 3600}

\* The key of a request without params is its path.
CacheKey(path) == path

\* An entry is live until its expiry.
Live(k) == cache[k] # NoEntry /\ now < cache[k].expires

CacheSet(k, v, ttl) ==
    [cache EXCEPT ![k] = [value |-> v, expires |-> now + ttl]]

\* getRolling(path, undefined, ttl), up to its return or its await.
GetRolling(c, path, ttl) ==
    IF Live(CacheKey(path))
    THEN /\ result' = [result EXCEPT
                         ![c] = Resolved(cache[CacheKey(path)].value)]
         /\ pc' = [pc EXCEPT ![c] = "done"]
         /\ UNCHANGED sent
    ELSE /\ sent' = [sent EXCEPT ![c] = <<GetRequest(path)>>]
         /\ pc' = [pc EXCEPT ![c] = "rolling"]
         /\ UNCHANGED result

\* getRolling after its await resolved with data d.
GetRollingStore(c, path, ttl, d) ==
    /\ cache' = CacheSet(CacheKey(path), d, ttl)
    /\ result' = [result EXCEPT ![c] = Resolved(d)]

(***************************************************************************)
(* getProfiles, getRootFolders (radarr.ts:242-268).                        *)
(***************************************************************************)
ProfilesTtl == 3600
RootFoldersTtl == 3600

RollingPath(o) ==
    IF o = "getProfiles" THEN "/qualityProfile" ELSE "/rootfolder"
RollingTtl(o) == IF o = "getProfiles" THEN ProfilesTtl ELSE RootFoldersTtl
RollingResponses(o) ==
    IF o = "getProfiles" THEN ProfileResponses ELSE RootFolderResponses

\* Faulty variant: the catch answers with an empty list.
RollingCatchSwallow(o, m) == Resolved(<<>>)

\* catch (e) of lines 251-253 and 265-267.
RollingCatch(o, m) ==
    IF o = "getProfiles"
    THEN Rejected(<<"[Radarr] Failed to retrieve profiles: ", m>>)
    ELSE Rejected(<<"[Radarr] Failed to retrieve root folders: ", m>>)

\* Faulty variant: asks the service directly, as getQueue does.
CallGetProfilesDirect(c) ==
    /\ pc[c] = "idle"
    /\ op' = [op EXCEPT ![c] = "getProfiles"]
    /\ sent' = [sent EXCEPT ![c] = <<GetRequest("/qualityProfile")>>]
    /\ pc' = [pc EXCEPT ![c] = "rolling"]
    /\ UNCHANGED <<options, movie, recv, cause, result, cache, now, service>>

CallGetProfiles(c) ==
    /\ pc[c] = "idle"
    /\ op' = [op EXCEPT ![c] = "getProfiles"]
    /\ GetRolling(c, "/qualityProfile", ProfilesTtl)
    /\ UNCHANGED <<options, movie, recv, cause, cache, now, service>>

CallGetRootFolders(c) ==
    /\ pc[c] = "idle"
    /\ op' = [op EXCEPT ![c] = "getRootFolders"]
    /\ GetRolling(c, "/rootfolder", RootFoldersTtl)
    /\ UNCHANGED <<options, movie, recv, cause, cache, now, service>>

\* Faulty variant: a fetch that finds the entry live on its return keeps it.
RollingSettlesKeepsLive(c) ==
    /\ pc[c] = "rolling"
    /\ \E r \in RollingResponses(op[c]) :
       /\ recv' = [recv EXCEPT ![c] = Append(@, r)]
       /\ IF r.ok
          THEN /\ result' = [result EXCEPT ![c] = Resolved(r.data)]
               /\ cache' = IF Live(RollingPath(op[c]))
                           THEN cache
                           ELSE CacheSet(RollingPath(op[c]), r.data,
                                         RollingTtl(op[c]))
          ELSE /\ result' = [result EXCEPT
                               ![c] = RollingCatch(op[c], r.message)]
               /\ UNCHANGED cache
       /\ pc' = [pc EXCEPT ![c] = "done"]
       /\ UNCHANGED <<op, options, movie, sent, cause, now, service>>

\* The GET of a rolling fetch settles with r.
RollingSettles(c) ==
    /\ pc[c] = "rolling"
    /\ \E r \in RollingResponses(op[c]) :
       /\ recv' = [recv EXCEPT ![c] = Append(@, r)]
       /\ IF r.ok
          THEN GetRollingStore(c, RollingPath(op[c]), RollingTtl(op[c]), r.data)
          ELSE /\ result' = [result EXCEPT ![c] = RollingCatch(op[c], r.message)]
               /\ UNCHANGED cache
       /\ pc' = [pc EXCEPT ![c] = "done"]
       /\ UNCHANGED <<op, options, movie, sent, cause, now, service>>

(***************************************************************************)
(* getQueue (radarr.ts:270-278).                                           *)
(***************************************************************************)
CallGetQueue(c) ==
    /\ pc[c] = "idle"
    /\ op' = [op EXCEPT ![c] = "getQueue"]
    /\ sent' = [sent EXCEPT ![c] = <<GetRequest("/queue")>>]
    /\ pc' = [pc EXCEPT ![c] = "queue"]
    /\ UNCHANGED <<options, movie, recv, cause, result, cache, now, service>>

\* Faulty variant: returns the page that fits, not the records as received.
GetQueueReturnTruncated(d) ==
    Resolved(IF WellFormed(d) /\ Len(d.records) > 1
             THEN SubSeq(d.records, 1, Len(d.records) - 1)
             ELSE RecordsOf(d))

\* return response.data.records (line 274).
GetQueueReturn(d) == Resolved(RecordsOf(d))

\* The GET of line 272 settles with r.
QueueSettles(c) ==
    /\ pc[c] = "queue"
    /\ \E r \in QueueResponses :
       /\ recv' = [recv EXCEPT ![c] = Append(@, r)]
       /\ result' = [result EXCEPT ![c] =
              IF r.ok
              THEN GetQueueReturn(r.data)
              ELSE Rejected(<<"[Radarr] Failed to retrieve queue: ", r.message>>)]
       /\ pc' = [pc EXCEPT ![c] = "done"]
       /\ UNCHANGED <<op, options, movie, sent, cause, cache, now, service>>

\* Time passes between two steps of the event loop.
Tick(d) ==
    /\ now + d <= MaxTime
    /\ now' = now + d
    /\ UNCHANGED
          <<op, pc, options, movie, sent, recv, cause, result, cache, service>>

Init ==
    /\ op = [c \in Calls |-> "none"]
    /\ pc = [c \in Calls |-> "idle"]
    /\ options = [c \in Calls |-> NoOptions]
    /\ movie = [c \in Calls |-> NoMovie]
    /\ sent = [c \in Calls |-> <<>>]
    /\ recv = [c \in Calls |-> <<>>]
    /\ cause = [c \in Calls |-> NoCause]
    /\ result = [c \in Calls |-> NoResult]
    /\ cache = [k \in CacheKeys |-> NoEntry]
    /\ now = 0
    /\ service = [t \in TmdbIds |-> NoMovie]

\* getMovieByTmdbId(id), called directly: up to the await of line 118.
CallGetMovieByTmdbId(c, id) ==
    /\ pc[c] = "idle"
    /\ op' = [op EXCEPT ![c] = "getMovieByTmdbId"]
    /\ sent' = [sent EXCEPT ![c] = <<LookupRequest(id)>>]
    /\ pc' = [pc EXCEPT ![c] = "lookup"]
    /\ UNCHANGED <<options, movie, recv, cause, result, cache, now, service>>

\* addMovie(options): line 142 calls getMovieByTmdbId, which awaits its GET.
CallAddMovie(c, o) ==
    /\ pc[c] = "idle"
    /\ op' = [op EXCEPT ![c] = "addMovie"]
    /\ options' = [options EXCEPT ![c] = o]
    /\ sent' = [sent EXCEPT ![c] = <<LookupRequest(o.tmdbId)>>]
    /\ pc' = [pc EXCEPT ![c] = "lookup"]
    /\ UNCHANGED <<movie, recv, cause, result, cache, now, service>>

\* The lookup settles with r.  A direct getMovieByTmdbId call settles with
\* it; addMovie goes on from line 142 to its next await or to its end.
LookupSettlesWith(c, r) ==
    /\ pc[c] = "lookup"
    /\ recv' = [recv EXCEPT ![c] = Append(@, r)]
    /\ LET got == GetMovieByTmdbIdSettle(r) IN
       IF op[c] = "getMovieByTmdbId"
       THEN /\ result' = [result EXCEPT ![c] = got]
            /\ pc' = [pc EXCEPT ![c] = "done"]
            /\ UNCHANGED <<movie, sent, cause>>
       ELSE IF got.kind = "error"
       THEN /\ Throw(c, got.message)
            /\ UNCHANGED <<movie, sent>>
       ELSE LET m == got.value
                branch == AddMovieBranch(m) IN
            /\ movie' = [movie EXCEPT ![c] = m]
            /\ IF branch = "existing"
               THEN Return(c, m) /\ UNCHANGED sent
               ELSE IF branch = "update"
               THEN /\ sent' = [sent EXCEPT
                                  ![c] = Append(@, PutRequest(m, options[c]))]
                    /\ pc' = [pc EXCEPT ![c] = "put"]
                    /\ UNCHANGED <<cause, result>>
               ELSE /\ sent' = [sent EXCEPT
                                  ![c] = Append(@, PostRequest(options[c]))]
                    /\ pc' = [pc EXCEPT ![c] = "post"]
                    /\ UNCHANGED <<cause, result>>
    /\ UNCHANGED <<op, options, cache, now>>

LookupSettles(c) ==
    /\ pc[c] = "lookup"
    /\ \E r \in LookupResponses : LookupSettlesWith(c, r)
    /\ UNCHANGED service

\* The PUT of line 156 settles with r.
PutSettlesWith(c, r) ==
    /\ pc[c] = "put"
    /\ recv' = [recv EXCEPT ![c] = Append(@, r)]
    /\ IF ~r.ok
       THEN Throw(c, r.message)
       ELSE LET v == VerifyUpdate(movie[c], r.data) IN
            IF v.thrown THEN Throw(c, v.message) ELSE Return(c, v.value)
    /\ UNCHANGED <<op, options, movie, sent, cache, now>>

PutSettles(c) ==
    /\ pc[c] = "put"
    /\ \E r \in MovieResponses : PutSettlesWith(c, r)
    /\ UNCHANGED service

\* Faulty variant: a rejected POST is sent once more.
PostSettlesWithRetry(c, r) ==
    /\ pc[c] = "post"
    /\ recv' = [recv EXCEPT ![c] = Append(@, r)]
    /\ IF ~r.ok /\ Len(sent[c]) < 3
       THEN /\ sent' = [sent EXCEPT ![c] = Append(@, PostRequest(options[c]))]
            /\ UNCHANGED <<pc, cause, result>>
       ELSE /\ UNCHANGED sent
            /\ IF ~r.ok
               THEN Throw(c, r.message)
               ELSE LET v == VerifyCreate(r.data) IN
                    IF v.thrown
                    THEN Throw(c, v.message)
                    ELSE Return(c, v.value)
    /\ UNCHANGED <<op, options, movie, cache, now>>

\* The POST of line 199 settles with r.
PostSettlesWith(c, r) ==
    /\ pc[c] = "post"
    /\ recv' = [recv EXCEPT ![c] = Append(@, r)]
    /\ IF ~r.ok
       THEN Throw(c, r.message)
       ELSE LET v == VerifyCreate(r.data) IN
            IF v.thrown THEN Throw(c, v.message) ELSE Return(c, v.value)
    /\ UNCHANGED <<op, options, movie, sent, cache, now>>

PostSettles(c) ==
    /\ pc[c] = "post"
    /\ \E r \in MovieResponses : PostSettlesWith(c, r)
    /\ UNCHANGED service

\* The caller has its answer; the slot is free for the next call.
Collect(c) ==
    /\ pc[c] = "done"
    /\ op' = [op EXCEPT ![c] = "none"]
    /\ pc' = [pc EXCEPT ![c] = "idle"]
    /\ options' = [options EXCEPT ![c] = NoOptions]
    /\ movie' = [movie EXCEPT ![c] = NoMovie]
    /\ sent' = [sent EXCEPT ![c] = <<>>]
    /\ recv' = [recv EXCEPT ![c] = <<>>]
    /\ cause' = [cause EXCEPT ![c] = NoCause]
    /\ result' = [result EXCEPT ![c] = NoResult]
    /\ UNCHANGED <<cache, now, service>>

Next ==
    \/ \E c \in WriteCalls, id \in TmdbIds : CallGetMovieByTmdbId(c, id)
    \/ \E c \in WriteCalls, o \in Options : CallAddMovie(c, o)
    \/ \E c \in WriteCalls : LookupSettles(c)
    \/ \E c \in WriteCalls : PutSettles(c)
    \/ \E c \in WriteCalls : PostSettles(c)
    \/ \E c \in WriteCalls : Collect(c)

Spec == Init /\ [][Next]_vars

(***************************************************************************)
(* addMovie against a service that stores what it accepts.  The service    *)
(* holds at most one record per tmdb id; a lookup answers with the record  *)
(* it holds, or with a candidate that has no id (or with nothing) when it  *)
(* holds none; an accepted PUT or POST stores the record its body          *)
(* describes and answers with it; a refused one changes nothing.  Calls    *)
(* are made one after the other: call c starts when the calls before it    *)
(* have settled.                                                           *)
(***************************************************************************)
Held == {m \in Movies : m.id # 0}

InitFaithful ==
    /\ op = [c \in Calls |-> "none"]
    /\ pc = [c \in Calls |-> "idle"]
    /\ options = [c \in Calls |-> NoOptions]
    /\ movie = [c \in Calls |-> NoMovie]
    /\ sent = [c \in Calls |-> <<>>]
    /\ recv = [c \in Calls |-> <<>>]
    /\ cause = [c \in Calls |-> NoCause]
    /\ result = [c \in Calls |-> NoResult]
    /\ cache = [k \in CacheKeys |-> NoEntry]
    /\ now = 0
    /\ service \in [TmdbIds -> Held \cup {NoMovie}]

\* What GET /movie/lookup?term=tmdb:t answers.
ServiceLookup(t) ==
    IF service[t] # NoMovie
    THEN {HttpOk(<<service[t]>>)}
    ELSE {HttpOk(<<>>)} \cup
         {HttpOk(<<[id |-> 0, monitored |-> b, downloaded |-> FALSE]>>) :
             b \in BOOLEAN}

\* The record an accepted PUT with body b stores.
ServiceUpdated(b) ==
    [id |-> b.id, monitored |-> b.monitored, downloaded |-> b.downloaded]

\* The records an accepted POST with body b may store: the id is new.
ServiceCreated(b) ==
    {[id |-> i, monitored |-> b.monitored, downloaded |-> FALSE] :
        i \in {j \in 1..MaxId :
                 \A t \in TmdbIds : service[t] = NoMovie \/ service[t].id # j}}

SequentialAddMovie(c, o) ==
    /\ \A d \in Calls : d < c => pc[d] = "done"
    /\ CallAddMovie(c, o)

FaithfulLookup(c) ==
    /\ pc[c] = "lookup"
    /\ \E r \in ServiceLookup(options[c].tmdbId) : LookupSettlesWith(c, r)
    /\ UNCHANGED service

FaithfulPutAccepted(c) ==
    /\ pc[c] = "put"
    /\ LET b == sent[c][2].body IN
       /\ service' = [service EXCEPT ![b.tmdbId] = ServiceUpdated(b)]
       /\ PutSettlesWith(c, HttpOk(ServiceUpdated(b)))

FaithfulPostAccepted(c) ==
    /\ pc[c] = "post"
    /\ LET b == sent[c][2].body IN
       /\ service[b.tmdbId] = NoMovie
       /\ \E m \in ServiceCreated(b) :
             /\ service' = [service EXCEPT ![b.tmdbId] = m]
             /\ PostSettlesWith(c, HttpOk(m))

FaithfulWriteRefused(c) ==
    /\ pc[c] \in {"put", "post"}
    /\ \E e \in TransportErrors :
          IF pc[c] = "put"
          THEN PutSettlesWith(c, HttpFail(e))
          ELSE PostSettlesWith(c, HttpFail(e))
    /\ UNCHANGED service

NextFaithful ==
    \/ \E c \in Calls, o \in Options : SequentialAddMovie(c, o)
    \/ \E c \in Calls : FaithfulLookup(c)
    \/ \E c \in Calls : FaithfulPutAccepted(c)
    \/ \E c \in Calls : FaithfulPostAccepted(c)
    \/ \E c \in Calls : FaithfulWriteRefused(c)

SpecFaithful == InitFaithful /\ [][NextFaithful]_vars

(***************************************************************************)
(* The claims about addMovie and getMovieByTmdbId, checked under Spec.     *)
(***************************************************************************)
\* The lookup of call c has settled with a 2xx response that has a first
\* element: the record addMovie works on.
Found(c) ==
    /\ Len(recv[c]) >= 1
    /\ recv[c][1].ok
    /\ Len(recv[c][1].data) > 0
Looked(c) == recv[c][1].data[1]
\* The lookup of call c has settled without a record.
NotFound(c) ==
    /\ Len(recv[c]) >= 1
    /\ ~recv[c][1].ok \/ Len(recv[c][1].data) = 0
\* The write of call c has settled with a 2xx response.
Written(c) == Len(recv[c]) = 2 /\ recv[c][2].ok
Adding(c) == op[c] = "addMovie"
Generic == Rejected("Failed to add movie to Radarr")

\* C1: when the looked-up record is downloaded, whatever its id and its
\* monitored flag, addMovie resolves with exactly that record and has issued
\* the lookup and nothing else: no PUT, no POST.
C1_DownloadedReturnsLookedUp ==
    \A c \in Calls :
        (Adding(c) /\ Found(c) /\ Looked(c).downloaded)
            => /\ pc[c] = "done"
               /\ result[c] = Resolved(Looked(c))
               /\ Writes(c) = <<>>
               /\ sent[c] = <<LookupRequest(options[c].tmdbId)>>

C1_Witness ==
    \E c \in Calls :
        /\ Adding(c) /\ Found(c) /\ pc[c] = "done"
        /\ Looked(c).downloaded
        /\ Looked(c).id # 0 /\ ~Looked(c).monitored

\* C2: when the looked-up record has an internal id and is monitored,
\* addMovie resolves with exactly that record and issues no PUT and no POST.
C2_MonitoredReturnsLookedUp ==
    \A c \in Calls :
        (Adding(c) /\ Found(c) /\ Looked(c).id # 0 /\ Looked(c).monitored)
            => /\ pc[c] = "done"
               /\ result[c] = Resolved(Looked(c))
               /\ Writes(c) = <<>>
               /\ sent[c] = <<LookupRequest(options[c].tmdbId)>>

C2_Witness ==
    \E c \in Calls :
        /\ Adding(c) /\ Found(c) /\ pc[c] = "done"
        /\ Looked(c).id # 0 /\ Looked(c).monitored /\ ~Looked(c).downloaded

\* The looked-up record is in the service, unmonitored and not downloaded.
ExistsUnmonitored(c) ==
    /\ Adding(c) /\ Found(c)
    /\ ~Looked(c).downloaded /\ Looked(c).id # 0 /\ ~Looked(c).monitored

\* C3: when the looked-up record is not downloaded, has an id and is not
\* monitored, addMovie issues exactly one PUT /movie and no POST; when the
\* PUT's response has monitored = TRUE the call resolves with the record of
\* that response.
C3_UpdateThenReturnUpdated ==
    \A c \in Calls :
        ExistsUnmonitored(c)
            => /\ Puts(c) = <<PutRequest(Looked(c), options[c])>>
               /\ Posts(c) = <<>>
               /\ Len(sent[c]) = 2
               /\ (Written(c) /\ recv[c][2].data.monitored)
                     => /\ pc[c] = "done"
                        /\ result[c] = Resolved(recv[c][2].data)

C3_Witness ==
    \E c \in Calls :
        /\ ExistsUnmonitored(c) /\ Written(c) /\ pc[c] = "done"
        /\ recv[c][2].data.monitored
        /\ recv[c][2].data.id # Looked(c).id

\* C4: when the looked-up record is in the service and unmonitored and the
\* PUT gets a 2xx response whose record is still unmonitored, addMovie
\* rejects, and the error it raised is the one of the update check; a 2xx
\* status alone never makes the call resolve.
C4_UpdateStillUnmonitoredRejects ==
    \A c \in Calls :
        (ExistsUnmonitored(c) /\ Written(c) /\ ~recv[c][2].data.monitored)
            => /\ pc[c] = "done"
               /\ result[c].kind = "error"
               /\ cause[c] = "Failed to update existing movie in Radarr"

C4_Witness ==
    \E c \in Calls :
        /\ ExistsUnmonitored(c) /\ Written(c) /\ pc[c] = "done"
        /\ ~recv[c][2].data.monitored
        /\ recv[c][2].data.id = Looked(c).id

\* The looked-up record is not downloaded and has no id.
NotInService(c) ==
    Adding(c) /\ Found(c) /\ ~Looked(c).downloaded /\ Looked(c).id = 0

\* C5: when the looked-up record is not downloaded and has no id, addMovie
\* issues exactly one POST /movie and no PUT, whatever the record's
\* monitored flag; once the POST has a 2xx response the call resolves, with
\* the record of the response, exactly when that record has a non-zero id,
\* and rejects with the error of the create check otherwise.
C5_CreateThenVerifyId ==
    \A c \in Calls :
        NotInService(c)
            => /\ Posts(c) = <<PostRequest(options[c])>>
               /\ Puts(c) = <<>>
               /\ Len(sent[c]) = 2
               /\ Written(c)
                     => /\ pc[c] = "done"
                        /\ (result[c].kind = "ok") = (recv[c][2].data.id # 0)
                        /\ recv[c][2].data.id # 0
                              => result[c] = Resolved(recv[c][2].data)
                        /\ recv[c][2].data.id = 0
                              => /\ result[c].kind = "error"
                                 /\ cause[c] = "Failed to add movie to Radarr"

C5_Witness ==
    \E c \in Calls :
        /\ NotInService(c) /\ Written(c) /\ pc[c] = "done"
        /\ Looked(c).monitored
        /\ recv[c][2].data.id # 0
        /\ result[c].kind = "ok"

\* C6: getMovieByTmdbId resolves with the first element of a non-empty
\* lookup response, whatever follows it, and rejects with the one error
\* 'Movie not found' for an empty response and for a failed request alike.
C6_FirstOrNotFound ==
    \A c \in Calls :
        (op[c] = "getMovieByTmdbId" /\ pc[c] = "done")
            => /\ Len(recv[c]) = 1
               /\ Found(c) => result[c] = Resolved(Looked(c))
               /\ NotFound(c) => result[c] = Rejected("Movie not found")

C6_Witness ==
    \E c \in Calls :
        /\ op[c] = "getMovieByTmdbId" /\ pc[c] = "done"
        /\ Found(c)
        /\ Len(recv[c][1].data) = 2
        /\ recv[c][1].data[2] # recv[c][1].data[1]

\* C9 as the spec states it: when the lookup finds nothing, addMovie issues
\* no write and rejects with the lookup's own 'Movie not found' error.
C9_NotFoundPropagatesUnchanged ==
    \A c \in Calls :
        (Adding(c) /\ NotFound(c))
            => /\ pc[c] = "done"
               /\ Writes(c) = <<>>
               /\ result[c] = Rejected("Movie not found")

\* C9, amended: when the lookup finds nothing, addMovie issues no write,
\* its catch receives the lookup's 'Movie not found' error, and the caller
\* gets the generic 'Failed to add movie to Radarr' error in its place.
C9_NotFoundBecomesGeneric ==
    \A c \in Calls :
        (Adding(c) /\ NotFound(c))
            => /\ pc[c] = "done"
               /\ Writes(c) = <<>>
               /\ Len(sent[c]) = 1
               /\ cause[c] = "Movie not found"
               /\ result[c] = Generic

C9_Witness ==
    \E c \in Calls :
        /\ Adding(c) /\ NotFound(c) /\ pc[c] = "done"
        /\ recv[c][1].ok

\* A failure on the add path of call c: the write was rejected by the
\* transport (a refused duplicate create is a non-2xx status), or its 2xx
\* response failed the check that follows it.
WriteFailed(c) ==
    /\ Adding(c) /\ Len(recv[c]) = 2
    /\ \/ ~recv[c][2].ok
       \/ ExistsUnmonitored(c) /\ ~recv[c][2].data.monitored
       \/ NotInService(c) /\ recv[c][2].data.id = 0

\* C10: every failure of the update or of the create, whatever its cause,
\* reaches the caller as the same 'Failed to add movie to Radarr' error, and
\* a finished addMovie call has either resolved with a record or rejected
\* with that error.
C10_OneGenericError ==
    \A c \in Calls :
        /\ WriteFailed(c) => pc[c] = "done" /\ result[c] = Generic
        /\ (Adding(c) /\ pc[c] = "done")
              => \/ result[c].kind = "ok" /\ result[c].value \in Movies
                 \/ result[c] = Generic

C10_Witness ==
    \E c \in Calls :
        /\ WriteFailed(c) /\ pc[c] = "done"
        /\ ExistsUnmonitored(c)
        /\ recv[c][2].ok
        /\ cause[c] # Generic.message


NextRead ==
    \/ \E c \in Calls : CallGetProfiles(c)
    \/ \E c \in Calls : CallGetRootFolders(c)
    \/ \E c \in Calls : CallGetQueue(c)
    \/ \E c \in Calls : RollingSettles(c)
    \/ \E c \in Calls : QueueSettles(c)
    \/ \E c \in Calls : Collect(c)
    \/ \E d \in TickSteps : Tick(d)

SpecRead == Init /\ [][NextRead]_vars

(***************************************************************************)
(* The claims about the read operations, checked under SpecRead.           *)
(***************************************************************************)
RollingOp(o) == o \in {"getProfiles", "getRootFolders"}
\* Call c starts in this step.
Starts(c) == pc[c] = "idle" /\ pc'[c] # "idle"
\* The GET of call c settles with a 2xx response in this step.
Fetched(c) ==
    /\ pc[c] = "rolling" /\ pc'[c] = "done"
    /\ recv'[c][1].ok

\* C7: a getProfiles or getRootFolders call that starts while the entry of
\* its path is in the cache and not expired resolves with the cached value,
\* issues no request and leaves the cache as it is; a call that starts when
\* the entry has expired (or is absent) issues the GET, and when that GET
\* succeeds the entry becomes the fresh data, expiring 3600 s later, and the
\* call resolves with the fresh data.
C7_RollingFetchTtl ==
    [][\A c \in Calls :
          /\ (Starts(c) /\ RollingOp(op'[c]) /\ Live(RollingPath(op'[c])))
                => /\ pc'[c] = "done"
                   /\ sent'[c] = <<>>
                   /\ result'[c] = Resolved(cache[RollingPath(op'[c])].value)
                   /\ cache' = cache
          /\ (Starts(c) /\ RollingOp(op'[c]) /\ ~Live(RollingPath(op'[c])))
                => /\ pc'[c] = "rolling"
                   /\ sent'[c] = <<GetRequest(RollingPath(op'[c]))>>
                   /\ cache' = cache
          /\ Fetched(c)
                => /\ cache'[RollingPath(op[c])] =
                          [value |-> recv'[c][1].data, expires |-> now + 3600]
                   /\ result'[c] = Resolved(recv'[c][1].data)
      ]_vars

\* One call was served from the cache while another, started after the
\* entry of its path had expired, is waiting for its GET.
C7_Witness ==
    \E c, d \in Calls :
        /\ op[c] = "getProfiles" /\ pc[c] = "done"
        /\ sent[c] = <<>> /\ result[c].kind = "ok"
        /\ Live("/qualityProfile")
        /\ op[d] = "getRootFolders" /\ pc[d] = "rolling"
        /\ cache["/rootfolder"] # NoEntry /\ ~Live("/rootfolder")

\* C8: every getQueue call issues GET /queue, whatever the cache holds, and
\* nothing of the queue is put in the cache; when the response is a
\* well-formed envelope the call resolves with exactly its records, in
\* their order.
C8_QueueRecordsLive ==
    \A c \in Calls :
        op[c] = "getQueue"
            => /\ sent[c] = <<GetRequest("/queue")>>
               /\ cache["/queue"] = NoEntry
               /\ pc[c] = "done" => Len(recv[c]) = 1
               /\ (pc[c] = "done" /\ recv[c][1].ok
                      /\ WellFormed(recv[c][1].data))
                     => result[c] = Resolved(recv[c][1].data.records)

C8_Witness ==
    \E c \in Calls :
        /\ op[c] = "getQueue" /\ pc[c] = "done" /\ recv[c][1].ok
        /\ WellFormed(recv[c][1].data)
        /\ recv[c][1].data.page = 2
        /\ Len(recv[c][1].data.records) = 2
        /\ recv[c][1].data.records[1] # recv[c][1].data.records[2]
        /\ Live("/qualityProfile") /\ Live("/rootfolder")

(***************************************************************************)
(* The claims about sequences of addMovie calls, checked under             *)
(* SpecFaithful.                                                           *)
(***************************************************************************)
\* Call d is a second addMovie of the request of call c, made after call c
\* resolved, and its lookup has settled.
Repeated(c, d) ==
    /\ c < d
    /\ Adding(c) /\ pc[c] = "done" /\ result[c].kind = "ok"
    /\ Adding(d) /\ options[d] = options[c]
    /\ pc[d] \notin {"idle", "lookup"}

\* Call d resolved with the record the service holds and issued no write.
Satisfied(d) ==
    /\ pc[d] = "done"
    /\ result[d] = Resolved(service[options[d].tmdbId])
    /\ Writes(d) = <<>>

\* C11 as the spec states it: for every request, once addMovie has
\* resolved, a second addMovie of the same request resolves with the
\* record the service holds and issues no PUT and no POST.
C11_SecondAddIsNoOp ==
    \A c, d \in Calls : Repeated(c, d) => Satisfied(d)

\* C11, amended: the same, for a request whose monitored flag is true, and
\* for a request whose monitored flag is false when the first call
\* resolved without creating the record.
C11_SecondAddIsNoOpWhenMonitored ==
    \A c, d \in Calls :
        (Repeated(c, d) /\ (options[c].monitored \/ Posts(c) = <<>>))
            => Satisfied(d)

\* C11, the case left out: after a create with monitored false the second
\* call finds the record unmonitored, issues a PUT and rejects.
C11_SecondAddAfterUnmonitoredCreate ==
    \A c, d \in Calls :
        (Repeated(c, d) /\ ~options[c].monitored /\ Posts(c) # <<>>)
            => /\ Len(Puts(d)) = 1
               /\ pc[d] = "done" => result[d] = Generic

C11_Witness ==
    \E c, d \in Calls :
        /\ Repeated(c, d) /\ options[c].monitored
        /\ Len(Posts(c)) = 1
        /\ Satisfied(d)

(***************************************************************************)
(* The claims about failed and concurrent rolling fetches, checked under   *)
(* SpecRead.                                                               *)
(***************************************************************************)
\* The GET of call c is rejected in this step.
FetchFailed(c) ==
    /\ pc[c] = "rolling" /\ pc'[c] = "done"
    /\ ~recv'[c][1].ok

\* The cache changes at key k and nowhere else.
WritesOnly(k) == \A j \in CacheKeys : j # k => cache'[j] = cache[j]

\* What C12 says of the cache and of the caller: a rejected GET leaves the
\* cache as it was and the call rejects with the wrapped error, whatever
\* the cache holds; a successful GET writes the entry of its key and no
\* other; and the cache changes in no other step.
FetchWritesOnce ==
    /\ \A c \in Calls :
          /\ FetchFailed(c)
                => /\ cache' = cache
                   /\ result'[c].kind = "error"
                   /\ result'[c].message[2] = recv'[c][1].message
          /\ Fetched(c) => WritesOnly(RollingPath(op[c]))
    /\ cache' # cache => \E c \in Calls : Fetched(c)

\* C12 as the spec states it: FetchWritesOnce, and after a rejected GET the
\* next call for the key issues a request: no live entry is there to serve.
C12_FailedFetchThenRequestAgain ==
    [][/\ FetchWritesOnce
       /\ \A c \in Calls :
             FetchFailed(c) => ~Live(RollingPath(op[c]))'
      ]_vars

\* C12, amended: FetchWritesOnce, and after a rejected GET a call for the
\* key issues a request unless the entry of the key is live, which it is
\* only when it was live before the rejection (the successful GET of a
\* concurrent call wrote it).
C12_FailedFetchLeavesCache ==
    [][/\ FetchWritesOnce
       /\ \A c \in Calls :
             /\ FetchFailed(c)
                   => (Live(RollingPath(op[c]))' <=> Live(RollingPath(op[c])))
             /\ (Starts(c) /\ RollingOp(op'[c])
                    /\ ~Live(RollingPath(op'[c])))
                   => /\ pc'[c] = "rolling"
                      /\ sent'[c] = <<GetRequest(RollingPath(op'[c]))>>
      ]_vars

\* A GET was rejected while the expired entry of its key was in the cache.
C12_Witness ==
    \E c \in Calls :
        /\ RollingOp(op[c]) /\ pc[c] = "done"
        /\ Len(sent[c]) = 1 /\ result[c].kind = "error"
        /\ cache[RollingPath(op[c])] # NoEntry
        /\ ~Live(RollingPath(op[c]))
        /\ cache[RollingPath(op[c])].expires = now

\* Calls c and d run the same rolling fetch.
SameFetch(c, d) == c # d /\ RollingOp(op[c]) /\ op[d] = op[c]

\* C13: a rolling fetch that starts while no live entry exists issues its
\* own GET also when another call is waiting for a GET of the same path;
\* every successful GET replaces the entry of its path, live or not, by the
\* whole of its own response, so that the entry is the response of the
\* call that wrote last; and every call resolves with the whole response
\* of its own request, leaving the results of the other calls alone.
C13_NoCoalescingLastWriterWins ==
    [][\A c \in Calls :
          /\ (Starts(c) /\ RollingOp(op'[c]) /\ ~Live(RollingPath(op'[c])))
                => /\ pc'[c] = "rolling"
                   /\ sent'[c] = <<GetRequest(RollingPath(op'[c]))>>
          /\ Fetched(c)
                => /\ recv'[c][1].data \in ProfileLists \cup RootFolderLists
                   /\ cache'[RollingPath(op[c])].value = recv'[c][1].data
                   /\ cache'[RollingPath(op[c])].expires = now + 3600
                   /\ WritesOnly(RollingPath(op[c]))
                   /\ result'[c] = Resolved(recv'[c][1].data)
                   /\ \A d \in Calls : d # c => result'[d] = result[d]
      ]_vars

\* Two calls fetched the same path at once and got different responses;
\* each has its own, and the cache has the one of the call that wrote last.
C13_Witness ==
    \E c, d \in Calls :
        /\ SameFetch(c, d)
        /\ pc[c] = "done" /\ pc[d] = "done"
        /\ Len(sent[c]) = 1 /\ Len(sent[d]) = 1
        /\ recv[c][1].ok /\ recv[d][1].ok
        /\ recv[c][1].data # recv[d][1].data
        /\ result[c] = Resolved(recv[c][1].data)
        /\ result[d] = Resolved(recv[d][1].data)
        /\ cache[RollingPath(op[c])].value = recv[d][1].data

(***************************************************************************)
(* The claim about the order of the requests of one addMovie call,         *)
(* checked under Spec.                                                     *)
(***************************************************************************)
Gets(c) == SelectSeq(sent[c], LAMBDA q : q.method = "GET")

\* C14: an addMovie call issues exactly one lookup GET, first; it issues a
\* write only after the lookup has resolved with a record, and at most one
\* (one PUT or one POST), so at most two requests in all; every request but
\* the last has been answered before the next is issued; and after a
\* request was rejected, or a check of a response failed, nothing more is
\* issued: the call has settled.
C14_LookupThenAtMostOneWrite ==
    \A c \in Calls :
        (Adding(c) /\ pc[c] # "idle")
            => /\ Len(sent[c]) \in {1, 2}
               /\ sent[c][1] = LookupRequest(options[c].tmdbId)
               /\ Gets(c) = <<sent[c][1]>>
               /\ Len(Writes(c)) = Len(sent[c]) - 1
               /\ Len(Puts(c)) = 0 \/ Len(Posts(c)) = 0
               /\ Len(sent[c]) = 2 => Found(c)
               /\ Len(recv[c]) \in {Len(sent[c]) - 1, Len(sent[c])}
               /\ (pc[c] = "done") = (Len(recv[c]) = Len(sent[c]))
               /\ \A k \in 1..Len(recv[c]) :
                     ~recv[c][k].ok => pc[c] = "done" /\ Len(sent[c]) = k
               /\ result[c].kind = "error" => pc[c] = "done"

\* A call whose POST was rejected: two requests, two answers, settled.
C14_Witness ==
    \E c \in Calls :
        /\ Adding(c) /\ pc[c] = "done"
        /\ Len(sent[c]) = 2 /\ Len(Posts(c)) = 1
        /\ Len(recv[c]) = 2 /\ ~recv[c][2].ok
        /\ result[c] = Generic

====
